---- MODULE Spec2Model ----
(***************************************************************************)
(* The data-preparation core of the EDA web application in src/app.py:     *)
(* the module-level tables X and X_no_outliers, the before_request hook    *)
(* that recomputes the z-score filter, and the route handlers that read or *)
(* write the two tables.                                                   *)
(*                                                                         *)
(* Numbers.  pandas holds the numeric columns as float64; the model holds  *)
(* every numeric cell as an exact fraction [n, d] in lowest terms, and the *)
(* missing value NaN as the fraction 0/0 (d = 0).  Means, standard         *)
(* deviations and z-scores are compared exactly, by cross-multiplication.  *)
(* A categorical cell is its category code, -1 for a missing category.     *)
(*                                                                         *)
(* Rows carry their pandas index label idx, which drop_duplicates and      *)
(* boolean-mask selection keep.                                            *)
(*                                                                         *)
(* Routes.  Five of the fourteen routes are modelled: the three that write *)
(* a table (handle_missing_values, remove_duplicates, outlier_removal),    *)
(* one report over X (missing_values) and one report over X_no_outliers    *)
(* (correlation_matrix_no_outliers).  The other nine only read X or        *)
(* X_no_outliers and render a page, like the two reports modelled.         *)
(***************************************************************************)
EXTENDS Integers, Sequences, FiniteSets, TLC

VARIABLES X, X_no_outliers, pc, route, local, response, present_at_load

vars == <<X, X_no_outliers, pc, route, local, response, present_at_load>>

(* ------------------------------ bounds --------------------------------- *)

\* Number of rows of the bulk block of a data source (rows that differ only
\* in their category).
BulkLen == 17

\* Largest number of further rows of a data source.
MaxTail == 2

\* The worker threads of the server that serve requests.
Threads == {"t1", "t2"}

(* ----------------------------- constants ------------------------------- *)

\* The z-score threshold of remove_outliers and outlier_removal.
Threshold == 3

\* numerical_cols: the numeric columns, fixed at load.
numerical_cols == {"a", "b"}

(* ----------------------------- fractions ------------------------------- *)

NaN == [n |-> 0, d |-> 0]

Num(k) == [n |-> k, d |-> 1]

isnull(v) == v.d = 0

Abs(k) == IF k < 0 THEN -k ELSE k

RECURSIVE Gcd(_, _)
Gcd(p, q) == IF q = 0 THEN p ELSE Gcd(q, p % q)

\* The fraction p/q (q > 0) in lowest terms.
Frac(p, q) == LET g == Gcd(Abs(p), q) IN [n |-> p \div g, d |-> q \div g]

FracAdd(v, w) == Frac(v.n * w.d + w.n * v.d, v.d * w.d)

Lcm(p, q) == (p \div Gcd(p, q)) * q

(* ------------------------------ columns -------------------------------- *)

\* The non-missing cells of column col of table T, in row order.
Present(T, col) ==
    LET notnull(r) == ~isnull(r[col])
        rows == SelectSeq(T, notnull)
    IN  [i \in 1..Len(rows) |-> rows[i][col]]

RECURSIVE FracSum(_)
FracSum(s) == IF s = <<>> THEN Num(0) ELSE FracAdd(s[1], FracSum(Tail(s)))

\* A mean that counts the missing cells as zeros (divides by every row).
mean_over_all_rows(T, col) ==
    LET s == Present(T, col)
    IN  IF s = <<>> THEN NaN
        ELSE LET t == FracSum(s) IN Frac(t.n, t.d * Len(T))

\* DataFrame.mean() of one column: the mean of its non-missing cells, NaN
\* when it has none.
mean(T, col) ==
    LET s == Present(T, col)
    IN  IF s = <<>> THEN NaN
        ELSE LET t == FracSum(s) IN Frac(t.n, t.d * Len(s))

\* DataFrame.fillna(means) of one cell.
fillna(v, m) == IF isnull(v) THEN m ELSE v

\* X[numerical_cols] = X[numerical_cols].fillna(X[numerical_cols].mean())
FillMissing(T) ==
    LET ma == mean(T, "a")
        mb == mean(T, "b")
    IN  [i \in 1..Len(T) |->
            [T[i] EXCEPT !.a = fillna(@, ma), !.b = fillna(@, mb)]]

(* ----------------------------- duplicates ------------------------------ *)

\* Rows compared on the numeric columns alone.
SameRow_numeric_only(r, s) == r.a = s.a /\ r.b = s.b

\* Two rows are duplicates when they agree on all columns (the index label
\* is not a column; a missing value equals a missing value).
SameRow(r, s) == r.a = s.a /\ r.b = s.b /\ r.c = s.c

\* duplicated(keep='last'): row i is repeated by a later row.
duplicated_keep_last(T, i) == \E j \in (i + 1)..Len(T) : T[j].a = T[i].a /\ T[j].b = T[i].b /\ T[j].c = T[i].c

\* DataFrame.duplicated(): row i repeats an earlier row.
duplicated(T, i) == \E j \in 1..(i - 1) : SameRow(T[j], T[i])

\* DataFrame.drop_duplicates(): the rows not marked by duplicated().
RECURSIVE DropFrom(_, _)
DropFrom(T, i) ==
    IF i > Len(T) THEN <<>>
    ELSE IF duplicated(T, i) THEN DropFrom(T, i + 1)
    ELSE <<T[i]>> \o DropFrom(T, i + 1)

drop_duplicates(T) == DropFrom(T, 1)

\* X.duplicated().sum()
duplicated_sum(T) == Cardinality({i \in 1..Len(T) : duplicated(T, i)})

(* ------------------------------ z-scores ------------------------------- *)

\* A common denominator of the non-missing cells s[i..] of a column.
RECURSIVE CommonDen(_, _)
CommonDen(s, i) == IF i > Len(s) THEN 1 ELSE Lcm(s[i].d, CommonDen(s, i + 1))

\* The cell v as a whole number of D-ths.
Scaled(v, D) == v.n * (D \div v.d)

RECURSIVE ScaledSum(_, _, _)
ScaledSum(s, D, i) ==
    IF i > Len(s) THEN 0 ELSE Scaled(s[i], D) + ScaledSum(s, D, i + 1)

\* The sum over the cells w of s[i..] of (m*w - S)^2, in D-ths.
RECURSIVE DevSquares(_, _, _, _, _)
DevSquares(s, D, m, S, i) ==
    IF i > Len(s) THEN 0
    ELSE (m * Scaled(s[i], D) - S) * (m * Scaled(s[i], D) - S)
         + DevSquares(s, D, m, S, i + 1)

\* numeric_X.mean() and numeric_X.std() of one column, both skipping missing
\* cells, std with ddof = 1.  With m non-missing cells of sum S (in D-ths):
\*   mean = S / (m*D),   std^2 = SS / (m^2 * (m-1) * D^2).
ColStats(T, col) ==
    LET s == Present(T, col)
        D == CommonDen(s, 1)
        m == Len(s)
        S == ScaledSum(s, D, 1)
    IN  [m |-> m, D |-> D, S |-> S, SS |-> DevSquares(s, D, m, S, 1)]

\* The column's std is a number (pandas gives NaN with fewer than two
\* non-missing cells).
std_defined(st) == st.m >= 2

\* (m*w - S)^2 for the cell v: the square of m*D*(v - mean).
Dev2(v, st) ==
    (st.m * Scaled(v, st.D) - st.S) * (st.m * Scaled(v, st.D) - st.S)

\* z is a number: the cell is present, std is a number, and z is not 0/0.
\* (A non-zero deviation needs two different cells, hence std > 0, so x/0
\* with x # 0 does not occur.)
z_defined(v, st) == ~isnull(v) /\ std_defined(st) /\ st.SS # 0

\* |z| < 3 for a cell whose z is a number:
\*   z^2 = dev2 * (m-1) / SS.
abs_z_below(dev2, st) ==
    dev2 * (st.m - 1) < Threshold * Threshold * st.SS

\* One cell of (z_scores < 3): a comparison with NaN is False.
z_lt_3(v, st) == z_defined(v, st) /\ abs_z_below(Dev2(v, st), st)

\* (z_scores < 3).all(axis=1) for one row.
all_axis1(r, sa, sb) == z_lt_3(r.a, sa) /\ z_lt_3(r.b, sb)

\* X.select_dtypes(include=[np.number]) of one row.
select_dtypes(r) == [idx |-> r.idx, a |-> r.a, b |-> r.b]

\* numeric_X[(z_scores < 3).all(axis=1)]: the rows of the numeric projection
\* that the mask selects, in their order.
ZFilter(T) ==
    LET sa == ColStats(T, "a")
        sb == ColStats(T, "b")
        mask(r) == all_axis1(r, sa, sb)
        kept == SelectSeq(T, mask)
    IN  [i \in 1..Len(kept) |-> select_dtypes(kept[i])]

None == [isNone |-> TRUE, rows |-> <<>>]

Frame(rows) == [isNone |-> FALSE, rows |-> rows]

\* The value remove_outliers() assigns to X_no_outliers.
remove_outliers(T) == Frame(ZFilter(T))

(* ---------------------------- data sources ----------------------------- *)

\* The cells of the further rows of a data source, in column a and in
\* column b.
TailCells == [a |-> {NaN, Num(0), Num(2)}, b |-> {NaN, Num(2)}]

\* A further row: two numeric cells and a missing category.
TailRows == {[a |-> va, b |-> vb, c |-> -1] : va \in TailCells.a, vb \in TailCells.b}

\* The bulk block: k rows with a = b = 1 that differ in their category.
Bulk(k) == [i \in 1..k |-> [a |-> Num(1), b |-> Num(1), c |-> i]]

RECURSIVE SeqsUpTo(_, _)
SeqsUpTo(S, k) ==
    IF k = 0 THEN {<<>>}
    ELSE LET shorter == SeqsUpTo(S, k - 1)
         IN  shorter \cup {Append(t, r) : t \in {u \in shorter : Len(u) = k - 1}, r \in S}

\* pd.DataFrame(...) gives the rows the index labels 1, 2, ... in order.
DataFrame(rows) ==
    [i \in 1..Len(rows) |->
        [idx |-> i, a |-> rows[i].a, b |-> rows[i].b, c |-> rows[i].c]]

\* The feature tables the data source may supply.
DataSources ==
    {DataFrame(t \o Bulk(k)) : k \in {0, BulkLen}, t \in SeqsUpTo(TailRows, MaxTail)}

Row(a, b, c) == [a |-> Num(a), b |-> Num(b), c |-> c]

\* The feature tables of the specification's scenarios.
Scenarios ==
    { DataFrame(<<Row(1, 10, 0), Row(2, 20, 0), Row(2, 20, 0), Row(1000, 20, 0)>>),
      DataFrame(<<Row(1, 1, 0), [a |-> NaN, b |-> Num(1), c |-> 0], Row(3, 1, 0)>>),
      DataFrame(<<Row(5, 5, 1), Row(5, 5, 2), Row(5, 5, 3), Row(5, 5, 4)>>) }

(* ------------------------------ responses ------------------------------ *)

\* A response: the fixed text of the page and the numbers interpolated in it.
Page(body, values) == [body |-> body, values |-> values]

NoResponse == Page("", <<>>)

NoLocals == [original_duplicates_count |-> 0, numeric_rows |-> 0]

Routes ==
    {"/missing_values", "/handle_missing_values", "/remove_duplicates",
     "/outlier_removal", "/correlation_matrix_no_outliers"}

\* X.isnull().sum(): the count of missing cells per column.
isnull_sum(T) ==
    << Cardinality({i \in 1..Len(T) : isnull(T[i].a)}),
       Cardinality({i \in 1..Len(T) : isnull(T[i].b)}),
       Cardinality({i \in 1..Len(T) : T[i].c = -1}) >>

(* ------------------------------ start-up ------------------------------- *)

\* A start-up that fills the numeric columns and drops no row.
Startup_without_drop(T) == FillMissing(T)

\* Module start-up: fill the numeric columns, then drop duplicate rows.
Startup(T) == drop_duplicates(FillMissing(T))

\* History: for each numeric column, whether the table as loaded (line 19)
\* had a non-missing value in it.
PresentAtLoad(T) ==
    [col \in numerical_cols |-> \E i \in 1..Len(T) : ~isnull(T[i][col])]

\* The state when the server starts to serve, for any data source.
Init ==
    /\ \E T \in DataSources :
          /\ X = Startup(T)
          /\ present_at_load = PresentAtLoad(T)
    /\ X_no_outliers = None
    /\ pc = [t \in Threads |-> "idle"]
    /\ route = [t \in Threads |-> ""]
    /\ local = [t \in Threads |-> NoLocals]
    /\ response = [t \in Threads |-> NoResponse]

\* Any feature table, with one worker serving: the operations as functions
\* of the table they are applied to.
InitOps ==
    /\ X \in DataSources \cup Scenarios
    /\ present_at_load = PresentAtLoad(X)
    /\ X_no_outliers = None
    /\ pc = [t \in Threads |-> IF t = "t1" THEN "idle" ELSE "off"]
    /\ route = [t \in Threads |-> ""]
    /\ local = [t \in Threads |-> NoLocals]
    /\ response = [t \in Threads |-> NoResponse]

(* ------------------------------ requests ------------------------------- *)

\* A request that is dispatched without the hook's recomputation.
before_request_skipped(t) ==
    /\ pc[t] = "idle"
    /\ pc' = [pc EXCEPT ![t] = "dispatch"]
    /\ \E r \in Routes : route' = [route EXCEPT ![t] = r]
    /\ response' = [response EXCEPT ![t] = NoResponse]
    /\ UNCHANGED <<X, X_no_outliers, local, present_at_load>>

\* A request for some route r arrives at worker t: before_request runs
\* remove_outliers(), then the request is dispatched to its handler.
before_request(t) ==
    /\ pc[t] = "idle"
    /\ X_no_outliers' = remove_outliers(X)
    /\ pc' = [pc EXCEPT ![t] = "dispatch"]
    /\ \E r \in Routes : route' = [route EXCEPT ![t] = r]
    /\ response' = [response EXCEPT ![t] = NoResponse]
    /\ UNCHANGED <<X, local, present_at_load>>

Dispatched(t, r) == pc[t] = "dispatch" /\ route[t] = r

Respond(t, page) ==
    /\ pc' = [pc EXCEPT ![t] = "idle"]
    /\ local' = [local EXCEPT ![t] = NoLocals]
    /\ response' = [response EXCEPT ![t] = page]
    /\ UNCHANGED <<route, present_at_load>>

missing_values(t) ==
    /\ Dispatched(t, "/missing_values")
    /\ Respond(t, Page("missing_values_counts", isnull_sum(X)))
    /\ UNCHANGED <<X, X_no_outliers>>

handle_missing_values(t) ==
    /\ Dispatched(t, "/handle_missing_values")
    /\ X' = FillMissing(X)
    /\ Respond(t, Page("Missing values handled", <<>>))
    /\ UNCHANGED X_no_outliers

\* remove_duplicates, line 99: count the duplicates of X.
remove_duplicates_count(t) ==
    /\ Dispatched(t, "/remove_duplicates")
    /\ local' = [local EXCEPT ![t].original_duplicates_count = duplicated_sum(X)]
    /\ pc' = [pc EXCEPT ![t] = "drop"]
    /\ UNCHANGED <<X, X_no_outliers, route, response, present_at_load>>

\* The page remove_duplicates returns.
remove_duplicates_page(count) == Page("Duplicates removed", <<>>)

\* remove_duplicates, lines 100-103: X = X.drop_duplicates(), and the page.
remove_duplicates_drop(t) ==
    /\ pc[t] = "drop"
    /\ X' = drop_duplicates(X)
    /\ Respond(t, remove_duplicates_page(local[t].original_duplicates_count))
    /\ UNCHANGED X_no_outliers

\* outlier_removal, lines 154-157: the filter of X replaces X_no_outliers.
outlier_removal_filter(t) ==
    /\ Dispatched(t, "/outlier_removal")
    /\ X_no_outliers' = Frame(ZFilter(X))
    /\ local' = [local EXCEPT ![t].numeric_rows = Len(X)]
    /\ pc' = [pc EXCEPT ![t] = "count"]
    /\ UNCHANGED <<X, route, response, present_at_load>>

\* A count of the rows kept instead of the rows removed.
kept_rows_count(numeric_rows, frame) == Len(frame.rows)

\* removed_outliers_count = numeric_X.shape[0] - X_no_outliers.shape[0]
removed_outliers_count(numeric_rows, frame) == numeric_rows - Len(frame.rows)

\* outlier_removal, lines 160-161: the count, from the global X_no_outliers.
outlier_removal_report(t) ==
    /\ pc[t] = "count"
    /\ Respond(t, Page("Number of outliers removed",
                       <<removed_outliers_count(local[t].numeric_rows, X_no_outliers)>>))
    /\ UNCHANGED <<X, X_no_outliers>>

\* X_no_outliers.corr() raises on None; otherwise the heatmap page.
correlation_matrix_no_outliers(t) ==
    /\ Dispatched(t, "/correlation_matrix_no_outliers")
    /\ Respond(t, IF X_no_outliers.isNone
                  THEN Page("Internal Server Error", <<>>)
                  ELSE Page("Correlation Matrix (Outliers Removed)", <<>>))
    /\ UNCHANGED <<X, X_no_outliers>>

\* A step of one worker.  The workers share X and X_no_outliers and take no
\* lock; the steps of different workers interleave.  A step is the hook, a
\* whole handler, or, for the two handlers that read a module-level table
\* again after an earlier statement read or wrote it (remove_duplicates,
\* outlier_removal), the part up to that read.
Next ==
    \E t \in Threads :
        \/ before_request(t)
        \/ missing_values(t)
        \/ handle_missing_values(t)
        \/ remove_duplicates_count(t)
        \/ remove_duplicates_drop(t)
        \/ outlier_removal_filter(t)
        \/ outlier_removal_report(t)
        \/ correlation_matrix_no_outliers(t)

\* The server, from start-up on, for any data source.
Spec == Init /\ [][Next]_vars

\* The operations applied to any feature table, one request at a time.
SpecOps == InitOps /\ [][Next]_vars

(* ======================================================================= *)
(*                              The claims                                  *)
(* ======================================================================= *)

AllCols == {"a", "b", "c"}

\* Row i of X is a row of the Outlier-Filtered Table (by index label).
Retained(i) ==
    \E k \in 1..Len(X_no_outliers.rows) : X_no_outliers.rows[k].idx = X[i].idx

\* The mean and standard deviation of each numeric column of T.
StatsOf(T) == [a |-> ColStats(T, "a"), b |-> ColStats(T, "b")]

\* |z| < 3, |z| >= 3 for the cell v of a column with statistics st, with
\* z = (value - mean) / std as the specification defines it: a column of
\* zero standard deviation (two cells or more, all equal) has z = 0 in every
\* row; a missing cell, and a column with fewer than two cells, has no z.
ZeroStd(st) == st.m >= 2 /\ st.SS = 0

SpecZBelow(v, st) ==
    /\ ~isnull(v)
    /\ st.m >= 2
    /\ \/ st.SS = 0
       \/ Dev2(v, st) * (st.m - 1) < 9 * st.SS

SpecZAtLeast(v, st) ==
    /\ ~isnull(v)
    /\ st.SS > 0
    /\ Dev2(v, st) * (st.m - 1) >= 9 * st.SS

\* Some worker's request has just passed the recomputation of the hook.
JustRecomputed == \E t \in Threads : pc[t] = "dispatch"

\* T has two rows or more and no missing numeric cell.
Complete(T) ==
    /\ Len(T) >= 2
    /\ \A i \in 1..Len(T) : \A col \in numerical_cols : ~isnull(T[i][col])

\* C1 (as claimed): after a recomputation, a row of X is in X_no_outliers
\* if and only if |z| < 3 in every numeric column, and every excluded row has
\* a numeric column with |z| >= 3 (stated for the tables of two rows or more
\* without a missing numeric cell).
C1_RetainedIffAllBelow3 ==
    (JustRecomputed /\ Complete(X)) =>
        LET st == StatsOf(X)
        IN  \A i \in 1..Len(X) :
                /\ Retained(i) <=>
                      \A col \in numerical_cols : SpecZBelow(X[i][col], st[col])
                /\ ~Retained(i) =>
                      \E col \in numerical_cols : SpecZAtLeast(X[i][col], st[col])

\* Every numeric column of T has a standard deviation that is a non-zero
\* number, and no cell of it is missing.
PositiveStd(T) ==
    LET st == StatsOf(T)
    IN  \A col \in numerical_cols : st[col].SS > 0 /\ st[col].m = Len(T)

\* C1 where z is a number in every cell: the statement of C1 holds of every
\* table whose numeric columns all have a non-zero standard deviation.
C1_WherePositiveStd == PositiveStd(X) => C1_RetainedIffAllBelow3

\* A recomputation that excluded a row with |z| exactly 3.
C1_WitnessExactly3 ==
    /\ JustRecomputed /\ PositiveStd(X)
    /\ LET st == StatsOf(X)
       IN  \E i \in 1..Len(X) :
              /\ ~Retained(i)
              /\ \E col \in numerical_cols :
                    Dev2(X[i][col], st[col]) * (st[col].m - 1) = 9 * st[col].SS

\* C2 (as claimed): a numeric column of zero standard deviation excludes no
\* row: after a recomputation of a table of two rows or more without a
\* missing numeric cell, a row whose every numeric column either is constant
\* or has |z| < 3 is retained.
C2_ConstantColumnExcludesNoRow ==
    (JustRecomputed /\ Complete(X)) =>
        LET st == StatsOf(X)
        IN  \A i \in 1..Len(X) :
                (\A col \in numerical_cols :
                    /\ ~isnull(X[i][col])
                    /\ ZeroStd(st[col]) \/ SpecZBelow(X[i][col], st[col]))
                => Retained(i)

\* The scenario of C3 after deduplicate: rows 1, 2 and 4 of the table.
Deduplicated3 ==
    << [idx |-> 1, a |-> Num(1), b |-> Num(10), c |-> 0],
       [idx |-> 2, a |-> Num(2), b |-> Num(20), c |-> 0],
       [idx |-> 4, a |-> Num(1000), b |-> Num(20), c |-> 0] >>

HasThousand(T) == \E i \in 1..Len(T) : T[i].a = Num(1000)

Answered(t, body) == pc[t] = "idle" /\ response[t].body = body

\* deduplicate leaves exactly rows 1, 2 and 4 of the scenario's table.
C3_DeduplicateLeaves3 ==
    \A t \in Threads :
        (HasThousand(X) /\ Answered(t, "Duplicates removed")) => X = Deduplicated3

\* C3 (as claimed): the following recomputation excludes {a:1000, b:20},
\* leaving 2 rows, and reports a removed-count of 1.
C3_ExcludesThousand ==
    /\ C3_DeduplicateLeaves3
    /\ \A t \in Threads :
          (X = Deduplicated3 /\ Answered(t, "Number of outliers removed")) =>
              /\ Len(X_no_outliers.rows) = 2
              /\ ~HasThousand(X_no_outliers.rows)
              /\ response[t].values = <<1>>

\* C3 (amended): deduplicate leaves 3 rows, and the following recomputation
\* retains all 3 of them, {a:1000, b:20} included (its z-score in column a
\* is 2*sqrt(3)/3 < 3), and reports a removed-count of 0.
C3_RetainsAllThree ==
    /\ C3_DeduplicateLeaves3
    /\ \A t \in Threads :
          (X = Deduplicated3 /\ Answered(t, "Number of outliers removed")) =>
              /\ X_no_outliers.rows =
                    [i \in 1..3 |-> [idx |-> X[i].idx, a |-> X[i].a, b |-> X[i].b]]
              /\ response[t].values = <<0>>

C3_Witness ==
    X = Deduplicated3 /\ Answered("t1", "Number of outliers removed")

\* Rows r and s are identical across all columns.
Identical(r, s) == \A col \in AllCols : r[col] = s[col]

\* The positions of the rows of T that no earlier row is identical to.
FirstOccurrences(T) ==
    {i \in 1..Len(T) : \A j \in 1..(i - 1) : ~Identical(T[j], T[i])}

\* U holds exactly the rows of T at the positions P, in the order of T.
IsSelection(U, T, P) ==
    /\ Len(U) = Cardinality(P)
    /\ \A i \in P : U[Cardinality({j \in P : j <= i})] = T[i]

\* The step that ends remove_duplicates.
DeduplicateStep(t) == pc[t] = "drop" /\ pc'[t] = "idle"

\* C4: deduplicate replaces the table by the first occurrences of its rows,
\* in their order: no two rows of the result are identical and it has at
\* most as many rows as the table had.
C4_DeduplicateKeepsFirst ==
    [][\A t \in Threads : DeduplicateStep(t) =>
          /\ IsSelection(X', X, FirstOccurrences(X))
          /\ \A i, j \in 1..Len(X') : Identical(X'[i], X'[j]) => i = j
          /\ Len(X') <= Len(X)]_vars

\* deduplicate has answered and has removed a row that was not the last one.
C4_Witness ==
    /\ Answered("t1", "Duplicates removed")
    /\ \E i \in 1..Len(X) : X[i].idx # i

\* The cell v is the mean of the non-missing cells of a column with
\* statistics st.
IsMeanOf(v, st) == v.d > 0 /\ v.n * st.m * st.D = st.S * v.d

\* The step of handle_missing_values.
FillStep(t) == Dispatched(t, "/handle_missing_values") /\ pc'[t] = "idle"

\* The scenario [1, missing, 3] of C5.
OneMissingThree ==
    DataFrame(<<Row(1, 1, 0), [a |-> NaN, b |-> Num(1), c |-> 0], Row(3, 1, 0)>>)

\* C5: fillMissing replaces every missing entry of a numeric column by the
\* mean of the column's non-missing values at the time of the call, leaves
\* every other cell as it is, and leaves no missing entry in a numeric
\* column that had a non-missing value; [1, missing, 3] becomes [1, 2, 3].
C5_FillMissingByMean ==
    [][\A t \in Threads : FillStep(t) =>
          /\ Len(X') = Len(X)
          /\ LET st == StatsOf(X)
             IN  \A i \in 1..Len(X) :
                    /\ X'[i].idx = X[i].idx
                    /\ X'[i].c = X[i].c
                    /\ \A col \in numerical_cols :
                          /\ ~isnull(X[i][col]) => X'[i][col] = X[i][col]
                          /\ (isnull(X[i][col]) /\ st[col].m > 0)
                                => IsMeanOf(X'[i][col], st[col])
          /\ \A col \in numerical_cols :
                (\E i \in 1..Len(X) : ~isnull(X[i][col]))
                    => \A i \in 1..Len(X') : ~isnull(X'[i][col])
          /\ X = OneMissingThree => X'[2].a = Num(2)]_vars

\* fillMissing has answered on the table [1, missing, 3].
C5_Witness ==
    /\ Answered("t1", "Missing values handled")
    /\ Len(X) = 3 /\ X[1].a = Num(1) /\ X[2].a = Num(2) /\ X[3].a = Num(3)
    /\ X[2].c = 0

\* C6 (as claimed): the value remove_duplicates returns carries the number
\* of rows it dropped (stated for the calls that drop a row or more).
C6_ReportsRemovedCount ==
    [][\A t \in Threads : (DeduplicateStep(t) /\ Len(X') < Len(X)) =>
          response'[t].values = <<Len(X) - Len(X')>>]_vars

\* The z-score filter of T: the numeric projection of the rows of T whose
\* every numeric cell has a z that is a number with z^2 < 9.
InsideThreeSigma(r, st) ==
    \A col \in numerical_cols :
        /\ ~isnull(r[col])
        /\ st[col].m >= 2
        /\ st[col].SS > 0
        /\ Dev2(r[col], st[col]) * (st[col].m - 1) < 9 * st[col].SS

NumericProjection(T) ==
    [i \in 1..Len(T) |-> [idx |-> T[i].idx, a |-> T[i].a, b |-> T[i].b]]

ZScoreFilter(T) ==
    LET st == StatsOf(T)
        Inside(r) == InsideThreeSigma(r, st)
    IN  NumericProjection(SelectSeq(T, Inside))

\* C7: when a route handler starts, X_no_outliers is not None and is the
\* z-score filter of the Feature Table as it stands.
C7_FilterFreshAtDispatch ==
    \A t \in Threads :
        pc[t] = "dispatch" =>
            /\ ~X_no_outliers.isNone
            /\ X_no_outliers.rows = ZScoreFilter(X)

\* A handler starts, after a remove_duplicates and a handle_missing_values
\* have been served, with a filter that excludes some rows and keeps some.
C7_Witness ==
    /\ pc["t1"] = "dispatch"
    /\ Answered("t2", "Duplicates removed") \/ Answered("t2", "Missing values handled")
    /\ 0 < Len(X_no_outliers.rows)
    /\ Len(X_no_outliers.rows) < Len(X)

\* The steps of outlier_removal.
OutlierRemovalStep(t) ==
    \/ Dispatched(t, "/outlier_removal") /\ pc'[t] = "count"
    \/ pc[t] = "count" /\ pc'[t] = "idle"

\* C8: /outlier_removal replaces X_no_outliers by the filter of the current
\* Feature Table, leaves the Feature Table unchanged, and returns the row
\* count of the numeric projection minus the row count of the new
\* X_no_outliers, which is not negative.
C8_OutlierRemovalCount ==
    /\ [](\A t \in Threads :
            Answered(t, "Number of outliers removed") =>
                /\ X_no_outliers.rows = ZScoreFilter(X)
                /\ response[t].values =
                      <<Len(NumericProjection(X)) - Len(X_no_outliers.rows)>>
                /\ response[t].values[1] >= 0)
    /\ [][\A t \in Threads : OutlierRemovalStep(t) =>
            /\ X' = X
            /\ X_no_outliers'.rows = ZScoreFilter(X)]_vars

\* /outlier_removal has answered that it removed one row or more.
C8_Witness ==
    /\ Answered("t1", "Number of outliers removed")
    /\ response["t1"].values[1] > 0
    /\ Len(X_no_outliers.rows) > 0

\* Worker t has run a part of a handler that reads or writes the tables and
\* has not finished it.
InOperation(t) == pc[t] \in {"drop", "count"}

\* C9 (as claimed): the operations are serialized by one exclusive lock: no
\* two requests are at once inside code that reads or writes X or
\* X_no_outliers.
C9_RequestsSerialized ==
    \A t, u \in Threads : (InOperation(t) /\ InOperation(u)) => t = u

\* C10: X has no two identical rows and no missing entry in a numeric
\* column that had a value at load; no request changes X, and every
\* recomputation of X_no_outliers yields the same table.
C10_StartupFixesX ==
    /\ [](/\ \A i, j \in 1..Len(X) : Identical(X[i], X[j]) => i = j
          /\ \A col \in numerical_cols :
                present_at_load[col] => \A i \in 1..Len(X) : ~isnull(X[i][col]))
    /\ [][/\ X' = X
          /\ ~X_no_outliers.isNone => X_no_outliers' = X_no_outliers]_vars

\* Start-up filled a cell (a row of missing category has a = 1, which no
\* such row has at load) and dropped a row (an index label is gone), and both
\* a handle_missing_values and a remove_duplicates have been served since.
C10_Witness ==
    /\ Answered("t1", "Missing values handled")
    /\ Answered("t2", "Duplicates removed")
    /\ \E i \in 1..Len(X) : X[i].idx # i
    /\ \E i \in 1..Len(X) : X[i].c = -1 /\ X[i].a = Num(1)

====
